---- MODULE Spec2Model ----
(***************************************************************************)
(* NGCat: a freecache overlay that keeps entries written without           *)
(* expiration in an in-memory map (persistData), flushes that map to a     *)
(* snapshot file from a background goroutine, and reloads it when a new    *)
(* NGCache is constructed.                                                 *)
(*                                                                         *)
(* Keys and values are byte sequences (tuples of 0..255).  The binary      *)
(* snapshot file is modelled as its byte stream; the JSON snapshot as the  *)
(* document tree encoding/json writes (keys coerced to valid UTF-8, values *)
(* as base64 text).  freecache is an external library: it is modelled by   *)
(* its contract (Set rejects oversized entries and leaves the cache as it  *)
(* was, any entry may disappear).                                          *)
(***************************************************************************)
EXTENDS Integers, Sequences, FiniteSets, TLC

(***************************************************************************)
(* Bounds of the model.                                                    *)
(***************************************************************************)
\* freecache rejects an entry larger than 1/1024 of the cache size with
\* ErrLargeEntry; the model's cache accepts a key and value of at most this many bytes together.
EngineMaxEntry == 3
\* calls the client goroutine may start in one process lifetime
MaxOps == 1
\* calls the racing client goroutines may start between them
MaxRaceOps == 3
\* processes constructed on the same snapshot file after the first one
MaxRestarts == 1
\* ticks of persistRoutine's ticker in one process lifetime
MaxTicks == 1
\* calls of Close in one process lifetime
MaxCloses == 2
\* the wall clock value time.Now().Unix() returns
NowUnix == 0
\* calls the client goroutine may start when it uses the typed Sets and Gets
MaxTypedOps == 2
\* ticks of the ticker when persistRoutine and Close run alone
MaxSchedTicks == 3
\* entries of the binary documents that are cut and decoded
MaxDocEntries == 2

(***************************************************************************)
(* Program constants.                                                      *)
(***************************************************************************)
FormatJSON == 0
FormatBinary == 1
\* 0x4E474341, "NGCA"
BinaryMagic == 1313293121
BinaryVersion == 1

Nil == "nil"
ErrKeyNotFound == "ErrKeyNotFound"
ErrInvalidType == "ErrInvalidType"
\* freecache's errors
ErrNotFound == "freecache.ErrNotFound"
ErrLargeEntry == "freecache.ErrLargeEntry"

(***************************************************************************)
(* Byte-level helpers.                                                     *)
(***************************************************************************)
\* binary.LittleEndian: n as w little-endian bytes
RECURSIVE LE(_, _)
LE(n, w) == IF w = 0 THEN << >> ELSE << n % 256 >> \o LE(n \div 256, w - 1)

\* binary.Read of a little-endian unsigned integer from the bytes s
RECURSIVE UnLE(_)
UnLE(s) == IF s = << >> THEN 0 ELSE s[1] + 256 * UnLE(Tail(s))

\* make([]byte, n): n zero bytes
Zeros(n) == [i \in 1..n |-> 0]

Drop(s, n) == SubSeq(s, n + 1, Len(s))
Take(s, n) == SubSeq(s, 1, n)

(***************************************************************************)
(* encoding/json, as saveToJSON and loadFromJSON use it.                   *)
(***************************************************************************)
\* the length of the UTF-8 sequence s starts with, 0 when s starts with a
\* byte that begins no well-formed sequence
Utf8Len(s) ==
    LET Cont(i) == i <= Len(s) /\ s[i] >= 128 /\ s[i] <= 191
    IN  IF s[1] < 128 THEN 1
        ELSE IF s[1] >= 194 /\ s[1] <= 223 /\ Cont(2) THEN 2
        ELSE IF s[1] >= 224 /\ s[1] <= 239 /\ Cont(2) /\ Cont(3) THEN 3
        ELSE IF s[1] >= 240 /\ s[1] <= 244 /\ Cont(2) /\ Cont(3) /\ Cont(4) THEN 4
        ELSE 0

\* U+FFFD, the replacement rune, in UTF-8
ReplacementRune == << 239, 191, 189 >>

\* json.Marshal of a Go string followed by json.Unmarshal: the string is
\* coerced to valid UTF-8, every invalid byte becoming U+FFFD
RECURSIVE JSONString(_)
JSONString(s) ==
    IF s = << >> THEN << >>
    ELSE LET n == Utf8Len(s)
         IN  IF n = 0 THEN ReplacementRune \o JSONString(Tail(s))
             ELSE Take(s, n) \o JSONString(Drop(s, n))

\* base64.StdEncoding, which json uses for []byte: the text as the sequence
\* of its 6-bit digits, 64 standing for the padding character
RECURSIVE Base64Encode(_)
Base64Encode(b) ==
    IF Len(b) = 0 THEN << >>
    ELSE IF Len(b) = 1 THEN
        << b[1] \div 4, (b[1] % 4) * 16, 64, 64 >>
    ELSE IF Len(b) = 2 THEN
        << b[1] \div 4, (b[1] % 4) * 16 + b[2] \div 16, (b[2] % 16) * 4, 64 >>
    ELSE
        << b[1] \div 4, (b[1] % 4) * 16 + b[2] \div 16,
           (b[2] % 16) * 4 + b[3] \div 64, b[3] % 64 >> \o Base64Encode(Drop(b, 3))

RECURSIVE Base64Decode(_)
Base64Decode(t) ==
    IF Len(t) < 4 THEN << >>
    ELSE LET b1 == t[1] * 4 + t[2] \div 16
             b2 == (t[2] % 16) * 16 + t[3] \div 4
             b3 == (t[3] % 4) * 64 + t[4]
         IN  IF t[3] = 64 THEN << b1 >>
             ELSE IF t[4] = 64 THEN << b1, b2 >>
             ELSE << b1, b2, b3 >> \o Base64Decode(Drop(t, 4))

(***************************************************************************)
(* The snapshot file.  bytes is the content of a binary file; a JSON file  *)
(* is the document it holds (wellformed is false for a text json.Decoder   *)
(* rejects) and bytes are the first bytes of its text.                     *)
(***************************************************************************)
NoFile ==
    [exists |-> FALSE, bytes |-> << >>, wellformed |-> FALSE,
     version |-> 0, entries |-> << >>]

\* os.Create: the file exists and is empty
EmptyFile == [NoFile EXCEPT !.exists = TRUE]

\* "{\n  ", the first bytes json.Encoder writes with SetIndent("", "  ")
JSONHead == << 123, 10, 32, 32 >>

\* saveToJSON: the document encoder.Encode(data) writes
JSONFile(data) ==
    [exists |-> TRUE, bytes |-> JSONHead, wellformed |-> TRUE,
     version |-> data.Version,
     entries |-> [i \in 1..Len(data.Entries) |->
                    [key |-> JSONString(data.Entries[i].Key),
                     value |-> Base64Encode(data.Entries[i].Value)]]]

\* the bytes saveToBinary writes for one entry
EntryBytes(e) ==
    LE(Len(e.Key), 4) \o e.Key \o LE(Len(e.Value), 4) \o e.Value

RECURSIVE EntriesBytes(_)
EntriesBytes(es) ==
    IF es = << >> THEN << >> ELSE EntryBytes(Head(es)) \o EntriesBytes(Tail(es))

\* saveToBinary: the bytes of a complete file
BinaryBytes(data) ==
    LE(BinaryMagic, 4) \o LE(BinaryVersion, 4) \o LE(data.Timestamp, 8)
        \o LE(Len(data.Entries), 4) \o EntriesBytes(data.Entries)

BinaryFile(bs) == [EmptyFile EXCEPT !.bytes = bs]

\* loadFromBinary's entry loop over the bytes s with n entries still to read:
\* the entries stored so far, the error that ended the loop, and whether
\* persistDataMutex is still locked at the return (each return of the loop
\* is preceded by its Unlock)
RECURSIVE ReadEntries(_, _, _)
ReadEntries(s, n, acc) ==
    IF n = 0 THEN [entries |-> acc, err |-> Nil, held |-> FALSE]
    ELSE IF Len(s) < 4 THEN [entries |-> acc, err |-> "read key length", held |-> FALSE]
    ELSE LET keyLen == UnLE(Take(s, 4))
             s1 == Drop(s, 4)
         IN  IF Len(s1) < keyLen THEN [entries |-> acc, err |-> "read key", held |-> FALSE]
             ELSE LET key == Take(s1, keyLen)
                      s2 == Drop(s1, keyLen)
                  IN  IF Len(s2) < 4
                      THEN [entries |-> acc, err |-> "read value length", held |-> FALSE]
                      ELSE LET valueLen == UnLE(Take(s2, 4))
                               s3 == Drop(s2, 4)
                           IN  IF Len(s3) < valueLen
                               THEN [entries |-> acc, err |-> "read value", held |-> FALSE]
                               ELSE ReadEntries(Drop(s3, valueLen), n - 1,
                                        Append(acc, [Key |-> key,
                                                     Value |-> Take(s3, valueLen)]))

\* a decoder that reads both fields and tests the version first
loadFromBinary_VersionFirst(f) ==
    LET s == f.bytes
        none(e) == [entries |-> << >>, err |-> e, held |-> FALSE]
    IN  IF Len(s) < 4 THEN none("read magic")
        ELSE IF Len(s) < 8 THEN none("read version")
        ELSE IF UnLE(SubSeq(s, 5, 8)) # BinaryVersion THEN none("unsupported version")
        ELSE IF UnLE(Take(s, 4)) # BinaryMagic THEN none("invalid magic")
        ELSE IF Len(s) < 16 THEN none("read timestamp")
        ELSE IF Len(s) < 20 THEN none("read entry count")
        ELSE ReadEntries(Drop(s, 20), UnLE(SubSeq(s, 17, 20)), << >>)

\* a decoder that stores nothing of a file it cannot read to the end
loadFromBinary_AllOrNothing(f) ==
    LET s == f.bytes
        none(e) == [entries |-> << >>, err |-> e, held |-> FALSE]
    IN  IF Len(s) < 4 THEN none("read magic")
        ELSE IF UnLE(Take(s, 4)) # BinaryMagic THEN none("invalid magic")
        ELSE IF Len(s) < 8 THEN none("read version")
        ELSE IF UnLE(SubSeq(s, 5, 8)) # BinaryVersion THEN none("unsupported version")
        ELSE IF Len(s) < 16 THEN none("read timestamp")
        ELSE IF Len(s) < 20 THEN none("read entry count")
        ELSE LET r == ReadEntries(Drop(s, 20), UnLE(SubSeq(s, 17, 20)), << >>)
             IN  IF r.err = Nil THEN r ELSE none(r.err)

\* loadFromBinary: magic, version, timestamp and entry count, then the entries
loadFromBinary(f) ==
    LET s == f.bytes
        none(e) == [entries |-> << >>, err |-> e, held |-> FALSE]
    IN  IF Len(s) < 4 THEN none("read magic")
        ELSE IF UnLE(Take(s, 4)) # BinaryMagic THEN none("invalid magic")
        ELSE IF Len(s) < 8 THEN none("read version")
        ELSE IF UnLE(SubSeq(s, 5, 8)) # BinaryVersion THEN none("unsupported version")
        ELSE IF Len(s) < 16 THEN none("read timestamp")
        ELSE IF Len(s) < 20 THEN none("read entry count")
        ELSE ReadEntries(Drop(s, 20), UnLE(SubSeq(s, 17, 20)), << >>)

\* loadFromJSON: decode the whole document, then copy every entry; the
\* version field is decoded and not looked at
loadFromJSON(f) ==
    IF ~f.wellformed THEN [entries |-> << >>, err |-> "parse JSON", held |-> FALSE]
    ELSE [entries |-> [i \in 1..Len(f.entries) |->
                         [Key |-> f.entries[i].key,
                          Value |-> Base64Decode(f.entries[i].value)]],
          err |-> Nil, held |-> FALSE]

(***************************************************************************)
(* The domains the inputs are drawn from.                                  *)
(***************************************************************************)
\* "a" and the single byte 0xFF, which is a Go string and no valid UTF-8
Keys == { << 97 >>, << 255 >> }
\* an empty value, a one-byte value and a value freecache rejects as too large
Values == { << >>, << 1 >>, << 7, 7, 7 >> }
Expires == { -1, 0, 5 }
Workers == { "w1", "w2" }
\* the goroutines that call saveToPersist: persistRoutine and the caller of Close
Flushers == { "sched", "close" }

\* PersistConfig as NewNGCache receives it; isNil stands for a nil pointer
Configs ==
    { [isNil |-> TRUE, Enabled |-> FALSE, Format |-> FormatJSON],
      [isNil |-> FALSE, Enabled |-> FALSE, Format |-> FormatBinary],
      [isNil |-> FALSE, Enabled |-> TRUE, Format |-> FormatJSON],
      [isNil |-> FALSE, Enabled |-> TRUE, Format |-> FormatBinary] }

\* the files a first process may find: none, one a previous run wrote, and
\* damaged ones (foreign magic, other version, both, cut inside the second
\* entry, a JSON text that does not parse)
SeedData ==
    [Version |-> 1, Timestamp |-> NowUnix,
     Entries |-> << [Key |-> << 97 >>, Value |-> << 1 >>],
                    [Key |-> << 255 >>, Value |-> << >>] >>]

SeedFiles(format) ==
    IF format = FormatBinary
    THEN LET good == BinaryBytes(SeedData)
         IN  { NoFile, BinaryFile(good),
               BinaryFile(LE(BinaryMagic + 1, 4) \o Drop(good, 4)),
               BinaryFile(Take(good, 4) \o LE(BinaryVersion + 1, 4) \o Drop(good, 8)),
               BinaryFile(LE(BinaryMagic + 1, 4) \o LE(BinaryVersion + 1, 4)
                              \o Drop(good, 8)),
               BinaryFile(Take(good, Len(good) - 5)) }
    ELSE { NoFile, JSONFile(SeedData),
           [JSONFile(SeedData) EXCEPT !.version = 2],
           [EmptyFile EXCEPT !.bytes = JSONHead] }

(***************************************************************************)
(* freecache, by its contract.  The cache maps the keys it holds to a      *)
(* value and the expiry Set was given (0: never expires).                  *)
(***************************************************************************)
\* cache.Set: an entry that is too large is refused and nothing changes;
\* expireSeconds <= 0 means no expiry
EngineSet(c, key, value, expireSeconds) ==
    IF Len(key) + Len(value) > EngineMaxEntry
    THEN [cache |-> c, err |-> ErrLargeEntry]
    ELSE [cache |-> (key :> [val |-> value,
                             ttl |-> IF expireSeconds > 0 THEN expireSeconds ELSE 0]) @@ c,
          err |-> Nil]

\* cache.Get
EngineGet(c, key) ==
    IF key \in DOMAIN c THEN [value |-> c[key].val, err |-> Nil]
    ELSE [value |-> << >>, err |-> ErrNotFound]

\* f without the key k
Without(f, k) == [x \in DOMAIN f \ {k} |-> f[x]]

\* the sequences that list the elements of the set S once each, in any order
RECURSIVE Orders(_)
Orders(S) ==
    IF S = {} THEN { << >> }
    ELSE UNION { { << x >> \o o : o \in Orders(S \ {x}) } : x \in S }

\* the map a sequence of entries builds when each is stored in turn
RECURSIVE EntriesMap(_)
EntriesMap(es) ==
    IF es = << >> THEN << >>
    ELSE LET e == es[Len(es)]
         IN  (e.Key :> e.Value) @@ EntriesMap(Take(es, Len(es) - 1))

(***************************************************************************)
(* The state.                                                              *)
(***************************************************************************)
VARIABLES
    config,            \* ng.persistConfig
    file,              \* the snapshot file at FilePath/FileName
    cache,             \* ng.cache, the freecache instance
    persistData,       \* ng.persistData
    persistDataMutex,  \* ng.persistDataMutex: its writer and its readers
    persistMutex,      \* ng.persistMutex: the goroutine that holds it
    stopChan,          \* ng.stopChan: "open" or "closed"
    ctor,              \* where NewNGCache is: "load", "spawn", "ready"
    loadErr,           \* what loadFromPersist returned
    sched,             \* persistRoutine: "Idle", "Running", "Flushing", "Stopped"
    tickC,             \* ticker.C, a channel of capacity 1: the ticks it holds
    ticks,             \* the ticks the ticker has sent in this process
    lateFlushes,       \* history: the flushes persistRoutine started after close(stopChan)
    fl,                \* per flusher: where its saveToPersist call is
    closer,            \* the caller of Close: its state and what Close returned
    panicked,          \* the process died of a panic
    wk,                \* per client goroutine: the call it is in
    ops,               \* client calls started in this process
    closes,            \* Close calls started in this process
    restarts,          \* processes started after the first
    written,           \* history: keys a write call was started on in this process
    recovered,         \* history: keys loadFromPersist stored in this process
    lastW,             \* history: per key, the last write call that returned
    ovl,               \* history: keys on which two calls overlapped in time
    durable,           \* history: what the last flush that succeeded had to save
    boot               \* history: durable, as it was when this process started

vars ==
    << config, file, cache, persistData, persistDataMutex, persistMutex, stopChan,
       ctor, loadErr, sched, tickC, ticks, lateFlushes, fl, closer, panicked, wk, ops, closes,
       restarts,
       written, recovered, lastW, ovl, durable, boot >>

\* a test that looks at the pointer only
Enabled_NotNil == ~config.isNil

\* config != nil && config.Enabled
Enabled == ~config.isNil /\ config.Enabled

\* history: a write call that returned, and the entry of lastW before any has
NoWrite == [kind |-> "none", value |-> << >>, exp |-> 0, err |-> Nil]

\* a client goroutine: the call it is in (op, key, value, exp, pc), the locals
\* of getWithPersist and GetPermanent (exists, persistValue), what the call
\* returned (data, err) and, as history, the last write to the key that had
\* returned when a read call started (prior) and persistData as it was when
\* a write call started (before)
IdleCall ==
    [op |-> "none", key |-> << >>, value |-> << >>, exp |-> 0, pc |-> "idle",
     exists |-> FALSE, persistValue |-> << >>, data |-> << >>, err |-> Nil,
     prior |-> NoWrite, before |-> << >>]

\* a saveToPersist call: where it is (pc), the []PersistEntry it has built
\* (entries) and, as history, the writes its snapshot must hold (must) and
\* the calls of this caller that returned an error (failed)
IdleFlush ==
    [pc |-> "idle", entries |-> << >>, must |-> << >>, failed |-> 0]

\* the state of the process once the struct literal of NewNGCache is built
Fresh ==
    /\ cache = << >>
    /\ persistData = << >>
    /\ persistDataMutex = [writer |-> "none", readers |-> {}]
    /\ persistMutex = "none"
    /\ stopChan = "open"
    /\ ctor = "load"
    /\ loadErr = Nil
    /\ sched = "Idle"
    /\ tickC = 0
    /\ ticks = 0
    /\ lateFlushes = 0
    /\ fl = [f \in Flushers |-> IdleFlush]
    /\ closer = [pc |-> "idle", ret |-> Nil, flushes |-> 0, pre |-> << >>]
    /\ panicked = FALSE
    /\ wk = [w \in Workers |-> IdleCall]
    /\ ops = 0
    /\ closes = 0
    /\ written = {}
    /\ recovered = {}
    /\ lastW = [k \in Keys |-> NoWrite]
    /\ ovl = {}

Init ==
    /\ config \in Configs
    /\ file \in IF Enabled THEN SeedFiles(config.Format) ELSE { NoFile }
    /\ restarts = 0
    /\ durable = [valid |-> FALSE, must |-> << >>]
    /\ boot = [valid |-> FALSE, must |-> << >>]
    /\ Fresh

(***************************************************************************)
(* NewNGCache.                                                             *)
(***************************************************************************)
\* a loader that stores the entries and forwards none of them to the cache
WarmCache_Skip(c, es) == c

\* the cache after cache.Set(entry.Key, entry.Value, 0) for each entry in turn
RECURSIVE WarmCache(_, _)
WarmCache(c, es) ==
    IF es = << >> THEN c
    ELSE WarmCache(EngineSet(c, Head(es).Key, Head(es).Value, 0).cache, Tail(es))

\* loadFromPersist's switch on the format
LoadFile(f, format) ==
    IF format = FormatJSON THEN loadFromJSON(f) ELSE loadFromBinary(f)

hist == << written, lastW, ovl, durable, boot >>
life == << config, restarts >>
locks == << persistDataMutex, persistMutex >>
schedv == << sched, tickC, ticks, lateFlushes, fl, closer, stopChan >>
clients == << wk, ops, closes >>

\* NewNGCache, first half: with persistence enabled, loadFromPersist; its
\* result is dropped
loadFromPersist ==
    /\ ctor = "load"
    /\ ~panicked
    /\ IF ~Enabled
       THEN /\ ctor' = "ready"
            /\ UNCHANGED << persistData, persistDataMutex, cache, loadErr, recovered >>
       ELSE /\ persistMutex = "none"
            /\ persistDataMutex = [writer |-> "none", readers |-> {}]
            /\ ctor' = "spawn"
            /\ IF ~file.exists
               THEN UNCHANGED << persistData, persistDataMutex, cache, loadErr, recovered >>
               ELSE LET r == LoadFile(file, config.Format)
                    IN  /\ persistDataMutex' =
                               [persistDataMutex EXCEPT !.writer =
                                   IF r.held THEN "NewNGCache" ELSE "none"]
                        /\ persistData' = EntriesMap(r.entries) @@ persistData
                        /\ cache' = WarmCache(cache, r.entries)
                        /\ loadErr' = r.err
                        /\ recovered' = { r.entries[i].Key : i \in 1..Len(r.entries) }
    /\ UNCHANGED << file, panicked, hist, life, persistMutex, schedv, clients >>

\* NewNGCache, second half: go ng.persistRoutine(), which makes its ticker,
\* and return ng
StartRoutine ==
    /\ ctor = "spawn"
    /\ ~panicked
    /\ sched = "Idle"
    /\ sched' = "Running"
    /\ ctor' = "ready"
    /\ UNCHANGED << file, cache, persistData, loadErr, panicked, hist, recovered,
                    life, locks, tickC, ticks, lateFlushes, fl, closer, stopChan, clients >>

(***************************************************************************)
(* The client calls.  A call starts with its first step; between two steps *)
(* of one call the other goroutines run.                                   *)
(***************************************************************************)
InFlight(w) == wk[w].pc \notin { "idle", "done" }

\* what starting a call on key k does to the bookkeeping
Begin(w, k, isWrite) ==
    /\ ctor = "ready"
    /\ ~panicked
    /\ ~InFlight(w)
    /\ ops' = ops + 1
    /\ ovl' = IF \E o \in Workers \ {w} : InFlight(o) /\ wk[o].key = k
              THEN ovl \cup {k} ELSE ovl
    /\ written' = IF isWrite THEN written \cup {k} ELSE written

Call(op, k, v, e, pc) ==
    [IdleCall EXCEPT !.op = op, !.key = k, !.value = v, !.exp = e, !.pc = pc,
                     !.prior = IF op \in { "Fetch", "GetPermanent" } THEN lastW[k]
                               ELSE NoWrite,
                     !.before = IF op \in { "Put", "SetPermanent" } THEN persistData
                                ELSE << >>]

Done(c, data, err) == [c EXCEPT !.pc = "done", !.data = data, !.err = err]

Wrote(c) == [kind |-> c.op, value |-> c.value, exp |-> c.exp, err |-> c.err]

MutexFree == persistDataMutex.writer = "none" /\ persistDataMutex.readers = {}
\* a read that does not wait for the writer
CanRLock_Always == TRUE

\* RLock succeeds when no writer holds the mutex
CanRLock == persistDataMutex.writer = "none"

\* two wrong tests: one that leaves 0 to the volatile branch, one that takes
\* every entry for a permanent one
IsPermanent_Strict(expireSeconds) == expireSeconds < 0

IsPermanent_Always(expireSeconds) == TRUE

\* setWithPersist's test for a permanent entry
IsPermanent(expireSeconds) == expireSeconds <= 0

\* a copy that copies nothing
Copy_Nothing(dst, src) == dst

\* Go's copy(dst, src): the first min(len(dst), len(src)) elements of src
\* over those of dst
Copy(dst, src) ==
    [i \in 1..Len(dst) |-> IF i <= Len(src) THEN src[i] ELSE dst[i]]

\* a Fetch that returns the stored value and does not put it back
Refill_Skip(c, key, value) == c

\* getWithPersist's ng.cache.Set(key, persistValue, 0), its error dropped
Refill(c, key, value) == EngineSet(c, key, value, 0).cache

\* setWithPersist(key, value, expireSeconds) is called by w: for a permanent
\* entry Lock and persistData[key] = make([]byte, len(value)); else the whole
\* call, which is ng.cache.Set alone
setWithPersist(w, k, v, e) ==
    /\ Begin(w, k, TRUE)
    /\ IF IsPermanent(e)
       THEN /\ MutexFree
            /\ persistDataMutex' = [persistDataMutex EXCEPT !.writer = w]
            /\ persistData' = (k :> Zeros(Len(v))) @@ persistData
            /\ wk' = [wk EXCEPT ![w] = Call("Put", k, v, e, "copy")]
            /\ UNCHANGED << cache, lastW >>
       ELSE LET r == EngineSet(cache, k, v, e)
                c == Done(Call("Put", k, v, e, "done"), << >>, r.err)
            IN  /\ cache' = r.cache
                /\ wk' = [wk EXCEPT ![w] = c]
                /\ lastW' = [lastW EXCEPT ![k] = Wrote(c)]
                /\ UNCHANGED << persistData, persistDataMutex >>
    /\ UNCHANGED << file, persistMutex, ctor, loadErr, panicked, recovered,
                    durable, boot, life, schedv, closes >>

\* setWithPersist, permanent: Lock and persistData[key] = make([]byte, len(value))
setWithPersistLock(w) ==
    \E k \in Keys, v \in Values, e \in Expires :
        IsPermanent(e) /\ setWithPersist(w, k, v, e)

\* setWithPersist, permanent: copy(persistData[key], value) and Unlock
setWithPersistCopy(w) ==
    /\ wk[w].op = "Put" /\ wk[w].pc = "copy"
    /\ ~panicked
    /\ persistData' = [persistData EXCEPT ![wk[w].key] = Copy(@, wk[w].value)]
    /\ persistDataMutex' = [persistDataMutex EXCEPT !.writer = "none"]
    /\ wk' = [wk EXCEPT ![w].pc = "set"]
    /\ UNCHANGED << file, cache, persistMutex, ctor, loadErr, panicked, recovered,
                    hist, life, schedv, ops, closes >>

\* setWithPersist, permanent: return ng.cache.Set(key, value, expireSeconds)
setWithPersistSet(w) ==
    /\ wk[w].op = "Put" /\ wk[w].pc = "set"
    /\ ~panicked
    /\ LET r == EngineSet(cache, wk[w].key, wk[w].value, wk[w].exp)
           c == Done(wk[w], << >>, r.err)
       IN  /\ cache' = r.cache
           /\ wk' = [wk EXCEPT ![w] = c]
           /\ lastW' = [lastW EXCEPT ![wk[w].key] = Wrote(c)]
    /\ UNCHANGED << file, persistData, locks, ctor, loadErr, panicked, recovered,
                    written, ovl, durable, boot, life, schedv, ops, closes >>

\* setWithPersist with expireSeconds > 0: only ng.cache.Set
setWithPersistVolatile(w) ==
    \E k \in Keys, v \in Values, e \in Expires :
        ~IsPermanent(e) /\ setWithPersist(w, k, v, e)

\* getWithPersist: ng.cache.Get; a hit returns, any error goes on to persistData
getWithPersistGet(w) ==
    \E k \in Keys :
        /\ Begin(w, k, FALSE)
        /\ LET r == EngineGet(cache, k)
           IN  wk' = [wk EXCEPT ![w] =
                        IF r.err = Nil
                        THEN Done(Call("Fetch", k, << >>, 0, "done"), r.value, Nil)
                        ELSE Call("Fetch", k, << >>, 0, "persist")]
        /\ UNCHANGED << file, cache, persistData, locks, ctor, loadErr, panicked,
                        recovered, lastW, durable, boot, life, schedv, closes >>

\* getWithPersist: RLock, persistValue, exists := persistData[key], RUnlock
getWithPersistRead(w) ==
    /\ wk[w].op = "Fetch" /\ wk[w].pc = "persist"
    /\ ~panicked
    /\ CanRLock
    /\ LET k == wk[w].key
       IN  wk' = [wk EXCEPT ![w].pc = "fill",
                            ![w].exists = k \in DOMAIN persistData,
                            ![w].persistValue =
                                IF k \in DOMAIN persistData THEN persistData[k] ELSE << >>]
    /\ UNCHANGED << file, cache, persistData, locks, ctor, loadErr, panicked,
                    recovered, hist, life, schedv, ops, closes >>

\* getWithPersist: if exists, cache.Set(key, persistValue, 0) with its error
\* dropped, and return persistValue; else return nil, ErrKeyNotFound
getWithPersistFill(w) ==
    /\ wk[w].op = "Fetch" /\ wk[w].pc = "fill"
    /\ ~panicked
    /\ IF wk[w].exists
       THEN /\ cache' = Refill(cache, wk[w].key, wk[w].persistValue)
            /\ wk' = [wk EXCEPT ![w] = Done(wk[w], wk[w].persistValue, Nil)]
       ELSE /\ cache' = cache
            /\ wk' = [wk EXCEPT ![w] = Done(wk[w], << >>, ErrKeyNotFound)]
    /\ UNCHANGED << file, persistData, locks, ctor, loadErr, panicked, recovered,
                    hist, life, schedv, ops, closes >>

\* SetPermanent: cache.Set(key, value, 0) first; its error returns at once
SetPermanentSet(w) ==
    \E k \in Keys, v \in Values :
        /\ Begin(w, k, TRUE)
        /\ LET r == EngineSet(cache, k, v, 0)
               c == Call("SetPermanent", k, v, 0, "store")
               d == Done(c, << >>, r.err)
           IN  /\ cache' = r.cache
               /\ IF r.err = Nil /\ Enabled
                  THEN wk' = [wk EXCEPT ![w] = c] /\ lastW' = lastW
                  ELSE wk' = [wk EXCEPT ![w] = d]
                       /\ lastW' = [lastW EXCEPT ![k] = Wrote(d)]
        /\ UNCHANGED << file, persistData, locks, ctor, loadErr, panicked, recovered,
                        durable, boot, life, schedv, closes >>

\* SetPermanent, persistence enabled: Lock, persistData[key] = value, Unlock
SetPermanentStore(w) ==
    /\ wk[w].op = "SetPermanent" /\ wk[w].pc = "store"
    /\ ~panicked
    /\ MutexFree
    /\ persistData' = (wk[w].key :> wk[w].value) @@ persistData
    /\ LET d == Done(wk[w], << >>, Nil)
       IN  /\ wk' = [wk EXCEPT ![w] = d]
           /\ lastW' = [lastW EXCEPT ![wk[w].key] = Wrote(d)]
    /\ UNCHANGED << file, cache, locks, ctor, loadErr, panicked, recovered,
                    written, ovl, durable, boot, life, schedv, ops, closes >>

\* GetPermanent: cache.Get; on an error persistData is read only when
\* persistence is enabled, else the error of cache.Get is returned
GetPermanentGet(w) ==
    \E k \in Keys :
        /\ Begin(w, k, FALSE)
        /\ LET r == EngineGet(cache, k)
               c == Call("GetPermanent", k, << >>, 0, "persist")
           IN  wk' = [wk EXCEPT ![w] =
                        IF r.err = Nil THEN Done(c, r.value, Nil)
                        ELSE IF Enabled THEN [c EXCEPT !.err = r.err]
                        ELSE Done(c, << >>, r.err)]
        /\ UNCHANGED << file, cache, persistData, locks, ctor, loadErr, panicked,
                        recovered, lastW, durable, boot, life, schedv, closes >>

\* GetPermanent: RLock, value, exists := persistData[key], RUnlock
GetPermanentRead(w) ==
    /\ wk[w].op = "GetPermanent" /\ wk[w].pc = "persist"
    /\ ~panicked
    /\ CanRLock
    /\ LET k == wk[w].key
       IN  wk' = [wk EXCEPT ![w].pc = "fill",
                            ![w].exists = k \in DOMAIN persistData,
                            ![w].persistValue =
                                IF k \in DOMAIN persistData THEN persistData[k] ELSE << >>]
    /\ UNCHANGED << file, cache, persistData, locks, ctor, loadErr, panicked,
                    recovered, hist, life, schedv, ops, closes >>

\* GetPermanent: if exists, cache.Set(key, value, 0) and return value; else
\* return nil and the error cache.Get gave
GetPermanentFill(w) ==
    /\ wk[w].op = "GetPermanent" /\ wk[w].pc = "fill"
    /\ ~panicked
    /\ IF wk[w].exists
       THEN /\ cache' = EngineSet(cache, wk[w].key, wk[w].persistValue, 0).cache
            /\ wk' = [wk EXCEPT ![w] = Done(wk[w], wk[w].persistValue, Nil)]
       ELSE /\ cache' = cache
            /\ wk' = [wk EXCEPT ![w] = Done(wk[w], << >>, wk[w].err)]
    /\ UNCHANGED << file, persistData, locks, ctor, loadErr, panicked, recovered,
                    hist, life, schedv, ops, closes >>

\* the typed reads, as functions of what getWithPersist returned (data, err):
\* its error is passed on with the zero value; then data of another length
\* than the type's width is ErrInvalidType.
\* a decoder that takes the bytes in the other order
Int32_BigEndian(b) ==
    LET low == b[4] + 256 * b[3] + 65536 * b[2] + 16777216 * (b[1] % 128)
    IN  IF b[1] >= 128 THEN (low - 2147483647) - 1 ELSE low

\* int32(binary.LittleEndian.Uint32(b)): the four bytes as a two's complement
\* number
Int32(b) ==
    LET low == b[1] + 256 * b[2] + 65536 * b[3] + 16777216 * (b[4] % 128)
    IN  IF b[4] >= 128 THEN (low - 2147483647) - 1 ELSE low

\* a 64-bit word, as its two 32-bit halves (the numbers the model checker
\* computes with are 32 bits wide)
Word64(b) == [hi |-> Int32(Drop(b, 4)), lo |-> Int32(Take(b, 4))]

Zero64 == [hi |-> 0, lo |-> 0]

\* a read that tests the length before the error
GetInt32_LengthFirst(r) ==
    IF Len(r.data) # 4 THEN [value |-> 0, err |-> ErrInvalidType]
    ELSE IF r.err # Nil THEN [value |-> 0, err |-> r.err]
    ELSE [value |-> Int32(r.data), err |-> Nil]

GetInt32(r) ==
    IF r.err # Nil THEN [value |-> 0, err |-> r.err]
    ELSE IF Len(r.data) # 4 THEN [value |-> 0, err |-> ErrInvalidType]
    ELSE [value |-> Int32(r.data), err |-> Nil]

GetInt64(r) ==
    IF r.err # Nil THEN [value |-> Zero64, err |-> r.err]
    ELSE IF Len(r.data) # 8 THEN [value |-> Zero64, err |-> ErrInvalidType]
    ELSE [value |-> Word64(r.data), err |-> Nil]

GetBool(r) ==
    IF r.err # Nil THEN [value |-> FALSE, err |-> r.err]
    ELSE IF Len(r.data) # 1 THEN [value |-> FALSE, err |-> ErrInvalidType]
    ELSE [value |-> (r.data[1] = 1), err |-> Nil]

\* a float is the bit pattern it is read from: 0 is the pattern of 0.0
GetFloat32(r) ==
    IF r.err # Nil THEN [value |-> 0, err |-> r.err]
    ELSE IF Len(r.data) # 4 THEN [value |-> 0, err |-> ErrInvalidType]
    ELSE [value |-> Int32(r.data), err |-> Nil]

GetFloat64(r) ==
    IF r.err # Nil THEN [value |-> Zero64, err |-> r.err]
    ELSE IF Len(r.data) # 8 THEN [value |-> Zero64, err |-> ErrInvalidType]
    ELSE [value |-> Word64(r.data), err |-> Nil]

\* string(data): the same bytes; "" is the empty sequence
GetString(r) ==
    IF r.err # Nil THEN [value |-> << >>, err |-> r.err]
    ELSE [value |-> r.data, err |-> Nil]

\* an eviction that takes the entry out of persistData as well
Evict_FromStore ==
    \E k \in DOMAIN cache :
        /\ ~panicked
        /\ cache' = Without(cache, k)
        /\ persistData' = Without(persistData, k)
        /\ UNCHANGED << file, locks, ctor, loadErr, panicked, recovered,
                        hist, life, schedv, clients >>

\* freecache drops an entry: it expired, or room was made for another
Evict ==
    \E k \in DOMAIN cache :
        /\ ~panicked
        /\ cache' = Without(cache, k)
        /\ UNCHANGED << file, persistData, locks, ctor, loadErr, panicked, recovered,
                        hist, life, schedv, clients >>

(***************************************************************************)
(* persistRoutine, saveToPersist and Close.                                *)
(***************************************************************************)
\* the capacity of the channel time.NewTicker makes: a tick that finds it
\* full is dropped
TickerCap == 1

\* history: the permanent Puts that have returned and are the last word on
\* their key (no write to the key is running, none overlapped another call)
Settled ==
    LET ks == { k \in Keys :
                  /\ lastW[k].kind = "Put" /\ lastW[k].exp <= 0
                  /\ k \notin ovl
                  /\ \A w \in Workers :
                        ~(InFlight(w) /\ wk[w].key = k
                            /\ wk[w].op \in { "Put", "SetPermanent" }) }
    IN  [k \in ks |-> lastW[k].value]

\* a ticker that queues every tick
TickerSend_Unbounded(n) == n + 1

\* the ticker's send on ticker.C, which holds n ticks: it does not block, a
\* tick that finds the channel full is dropped
TickerSend(n) == IF n < TickerCap THEN n + 1 ELSE n

\* the ticker fires
Tick ==
    /\ sched \in { "Running", "Flushing" }
    /\ ~panicked
    /\ ticks' = ticks + 1
    /\ lateFlushes' = lateFlushes
    /\ tickC' = TickerSend(tickC)
    /\ UNCHANGED << file, cache, persistData, locks, ctor, loadErr, panicked,
                    recovered, hist, life, sched, fl, closer, stopChan, clients >>

\* persistRoutine's select, case <-ticker.C: call saveToPersist
persistRoutineTick ==
    /\ sched = "Running"
    /\ ~panicked
    /\ tickC > 0
    /\ tickC' = tickC - 1
    /\ ticks' = ticks
    /\ lateFlushes' = IF stopChan = "closed" THEN lateFlushes + 1 ELSE lateFlushes
    /\ sched' = "Flushing"
    /\ fl' = [fl EXCEPT !["sched"].pc = "lock"]
    /\ UNCHANGED << file, cache, persistData, locks, ctor, loadErr, panicked,
                    recovered, hist, life, closer, stopChan, clients >>

\* a select without the case <-ng.stopChan
persistRoutineStop_Missing == FALSE /\ UNCHANGED vars

\* persistRoutine's select, case <-ng.stopChan: return
persistRoutineStop ==
    /\ sched = "Running"
    /\ ~panicked
    /\ stopChan = "closed"
    /\ sched' = "Stopped"
    /\ UNCHANGED << file, cache, persistData, locks, ctor, loadErr, panicked,
                    recovered, hist, life, tickC, ticks, lateFlushes, fl, closer, stopChan, clients >>

\* a loop that ends at the first flush that fails
Return_StopOnError(f, err) ==
    /\ fl' = [fl EXCEPT ![f] = [IdleFlush EXCEPT !.failed =
                                   IF err = Nil THEN fl[f].failed ELSE fl[f].failed + 1]]
    /\ IF f = "sched"
       THEN sched' = (IF err = Nil THEN "Running" ELSE "Stopped") /\ closer' = closer
       ELSE sched' = sched /\ closer' = [closer EXCEPT !.pc = "idle", !.ret = err]

\* saveToPersist returns err to its caller: persistRoutine drops it and
\* selects again, Close returns it
Return(f, err) ==
    /\ fl' = [fl EXCEPT ![f] = [IdleFlush EXCEPT !.failed =
                                   IF err = Nil THEN fl[f].failed ELSE fl[f].failed + 1]]
    /\ IF f = "sched"
       THEN sched' = "Running" /\ closer' = closer
       ELSE sched' = sched /\ closer' = [closer EXCEPT !.pc = "idle", !.ret = err]

\* saveToPersist: persistMutex.Lock and os.MkdirAll
saveToPersistLock(f) ==
    /\ fl[f].pc = "lock"
    /\ ~panicked
    /\ persistMutex = "none"
    /\ \E ok \in BOOLEAN :
          IF ok
          THEN /\ persistMutex' = f
               /\ fl' = [fl EXCEPT ![f].pc = "collect"]
               /\ UNCHANGED << sched, closer >>
          ELSE /\ persistMutex' = "none"
               /\ Return(f, "mkdir failed")
    /\ UNCHANGED << file, cache, persistData, persistDataMutex, ctor, loadErr, panicked,
                    recovered, hist, life, tickC, ticks, lateFlushes, stopChan, clients >>

\* a loop that loses the first key the iteration gives
Entries_SkipFirst(o) ==
    [i \in 1..(Len(o) - 1) |-> [Key |-> o[i + 1], Value |-> persistData[o[i + 1]]]]

\* saveToPersist's loop over persistData: one PersistEntry per key, in the
\* order o the map's iteration gives
Entries(o) ==
    [i \in 1..Len(o) |-> [Key |-> o[i], Value |-> persistData[o[i]]]]

\* saveToPersist: persistDataMutex.RLock and the loop that appends every
\* entry of persistData, in the order the map's iteration gives
saveToPersistCollect(f) ==
    /\ fl[f].pc = "collect"
    /\ ~panicked
    /\ CanRLock
    /\ persistDataMutex' = [persistDataMutex EXCEPT !.readers = @ \cup {f}]
    /\ \E o \in Orders(DOMAIN persistData) :
          fl' = [fl EXCEPT ![f].pc = "unlock",
                           ![f].entries = Entries(o),
                           ![f].must = Settled]
    /\ UNCHANGED << file, cache, persistData, persistMutex, ctor, loadErr, panicked,
                    recovered, hist, life, sched, tickC, ticks, lateFlushes, closer, stopChan, clients >>

\* a saveToPersist that goes on to the file with the read lock still held
saveToPersistRUnlock_Kept(f) ==
    /\ fl[f].pc = "unlock"
    /\ ~panicked
    /\ persistDataMutex' = persistDataMutex
    /\ fl' = [fl EXCEPT ![f].pc = "create"]
    /\ UNCHANGED << file, cache, persistData, persistMutex, ctor, loadErr, panicked,
                    recovered, hist, life, sched, tickC, ticks, lateFlushes, closer, stopChan, clients >>

\* saveToPersist: persistDataMutex.RUnlock
saveToPersistRUnlock(f) ==
    /\ fl[f].pc = "unlock"
    /\ ~panicked
    /\ persistDataMutex' = [persistDataMutex EXCEPT !.readers = @ \ {f}]
    /\ fl' = [fl EXCEPT ![f].pc = "create"]
    /\ UNCHANGED << file, cache, persistData, persistMutex, ctor, loadErr, panicked,
                    recovered, hist, life, sched, tickC, ticks, lateFlushes, closer, stopChan, clients >>

\* saveToJSON, saveToBinary: os.Create, which empties the file
saveToPersistCreate(f) ==
    /\ fl[f].pc = "create"
    /\ ~panicked
    /\ \E ok \in BOOLEAN :
          IF ok
          THEN /\ file' = EmptyFile
               /\ durable' = [valid |-> FALSE, must |-> << >>]
               /\ fl' = [fl EXCEPT ![f].pc = "write"]
               /\ UNCHANGED << persistMutex, sched, closer >>
          ELSE /\ persistMutex' = "none"
               /\ Return(f, "create failed")
               /\ UNCHANGED << file, durable >>
    /\ UNCHANGED << cache, persistData, persistDataMutex, ctor, loadErr, panicked,
                    recovered, written, lastW, ovl, boot, life, tickC, ticks, lateFlushes, stopChan, clients >>

\* the PersistData saveToPersist hands to the encoder
Snapshot(f) == [Version |-> 1, Timestamp |-> NowUnix, Entries |-> fl[f].entries]

\* where a failed write leaves a binary file: saveToBinary returns at its
\* first Write call that fails, with the bytes of the calls before it in the
\* file; the model lets the first call fail, or the last
BinaryCuts(data) ==
    LET n == Len(data.Entries)
    IN  { 0, IF n = 0 THEN 16
             ELSE Len(BinaryBytes(data)) - Len(data.Entries[n].Value) }

\* saveToJSON, saveToBinary: the writes; a failed one returns its error and
\* leaves what was written before it
saveToPersistWrite(f) ==
    /\ fl[f].pc = "write"
    /\ ~panicked
    /\ persistMutex' = "none"
    /\ \/ /\ file' = IF config.Format = FormatJSON THEN JSONFile(Snapshot(f))
                     ELSE BinaryFile(BinaryBytes(Snapshot(f)))
          /\ durable' = [valid |-> TRUE, must |-> fl[f].must]
          /\ Return(f, Nil)
       \/ /\ IF config.Format = FormatJSON
             THEN file' \in { EmptyFile, [EmptyFile EXCEPT !.bytes = JSONHead] }
             ELSE \E n \in BinaryCuts(Snapshot(f)) :
                     file' = BinaryFile(Take(BinaryBytes(Snapshot(f)), n))
          /\ durable' = durable
          /\ Return(f, "write failed")
    /\ UNCHANGED << cache, persistData, persistDataMutex, ctor, loadErr, panicked,
                    recovered, written, lastW, ovl, boot, life, tickC, ticks, lateFlushes, stopChan, clients >>

\* a Close that closes stopChan once only: a second call flushes again and
\* returns
Close_Idempotent ==
    /\ ctor = "ready"
    /\ ~panicked
    /\ closer.pc = "idle"
    /\ closes < MaxCloses
    /\ closes' = closes + 1
    /\ IF Enabled
       THEN /\ stopChan' = "closed"
            /\ closer' = [pc |-> "flush", ret |-> Nil, flushes |-> closer.flushes + 1,
                          pre |-> Settled]
            /\ fl' = [fl EXCEPT !["close"].pc = "lock"]
            /\ panicked' = panicked
       ELSE /\ closer' = [pc |-> "idle", ret |-> Nil, flushes |-> 0, pre |-> << >>]
            /\ UNCHANGED << stopChan, fl, panicked >>
    /\ UNCHANGED << file, cache, persistData, locks, ctor, loadErr, recovered, hist,
                    life, sched, tickC, ticks, lateFlushes, wk, ops >>

\* Close: with persistence enabled close(ng.stopChan), which panics on a
\* closed channel, then return ng.saveToPersist(); else return nil
Close ==
    /\ ctor = "ready"
    /\ ~panicked
    /\ closer.pc = "idle"
    /\ closes < MaxCloses
    /\ closes' = closes + 1
    /\ IF Enabled
       THEN IF stopChan = "closed"
            THEN /\ panicked' = TRUE
                 /\ UNCHANGED << stopChan, closer, fl >>
            ELSE /\ stopChan' = "closed"
                 /\ closer' = [pc |-> "flush", ret |-> Nil, flushes |-> 1, pre |-> Settled]
                 /\ fl' = [fl EXCEPT !["close"].pc = "lock"]
                 /\ panicked' = panicked
       ELSE /\ closer' = [pc |-> "idle", ret |-> Nil, flushes |-> 0, pre |-> << >>]
            /\ UNCHANGED << stopChan, fl, panicked >>
    /\ UNCHANGED << file, cache, persistData, locks, ctor, loadErr, recovered, hist,
                    life, sched, tickC, ticks, lateFlushes, wk, ops >>

\* the process ends (it is stopped, it is killed, it died of a panic) and a
\* new NewNGCache is called with the same configuration on the same file
Restart ==
    /\ restarts < MaxRestarts
    /\ restarts' = restarts + 1
    /\ boot' = durable
    /\ cache' = << >>
    /\ persistData' = << >>
    /\ persistDataMutex' = [writer |-> "none", readers |-> {}]
    /\ persistMutex' = "none"
    /\ stopChan' = "open"
    /\ ctor' = "load"
    /\ loadErr' = Nil
    /\ sched' = "Idle"
    /\ tickC' = 0
    /\ ticks' = 0
    /\ lateFlushes' = 0
    /\ fl' = [f \in Flushers |-> IdleFlush]
    /\ closer' = [pc |-> "idle", ret |-> Nil, flushes |-> 0, pre |-> << >>]
    /\ panicked' = FALSE
    /\ wk' = [w \in Workers |-> IdleCall]
    /\ ops' = 0
    /\ closes' = 0
    /\ written' = {}
    /\ recovered' = {}
    /\ lastW' = [k \in Keys |-> NoWrite]
    /\ ovl' = {}
    /\ UNCHANGED << config, file, durable >>

\* the client goroutine w starts a call
ClientCall(w) ==
    \/ setWithPersistLock(w)
    \/ setWithPersistVolatile(w)
    \/ getWithPersistGet(w)
    \/ SetPermanentSet(w)
    \/ GetPermanentGet(w)

\* the client goroutine w goes on with the call it is in
ClientStep(w) ==
    \/ setWithPersistCopy(w)
    \/ setWithPersistSet(w)
    \/ getWithPersistRead(w)
    \/ getWithPersistFill(w)
    \/ SetPermanentStore(w)
    \/ GetPermanentRead(w)
    \/ GetPermanentFill(w)

\* what persistRoutine and the goroutines inside saveToPersist do
Background ==
    \/ persistRoutineTick
    \/ persistRoutineStop
    \/ \E f \in Flushers : saveToPersistLock(f)
    \/ \E f \in Flushers : saveToPersistCollect(f)
    \/ \E f \in Flushers : saveToPersistRUnlock(f)
    \/ \E f \in Flushers : saveToPersistCreate(f)
    \/ \E f \in Flushers : saveToPersistWrite(f)

\* one process from NewNGCache on, with one client goroutine beside
\* persistRoutine and the caller of Close
Next ==
    \/ loadFromPersist
    \/ StartRoutine
    \/ (ops < MaxOps /\ ClientCall("w1"))
    \/ ClientStep("w1")
    \/ Evict
    \/ (ticks < MaxTicks /\ Tick)
    \/ Background
    \/ Close

Spec == Init /\ [][Next]_vars

\* a process that starts without a snapshot file or on a sound one, is ended
\* at any moment, and a second process on the file it left; no tick and no
\* Close reach the second process
InitRestart ==
    /\ Init
    /\ Enabled
    /\ file \in { NoFile,
                  IF config.Format = FormatJSON THEN JSONFile(SeedData)
                  ELSE BinaryFile(BinaryBytes(SeedData)) }

NextRestart ==
    \/ loadFromPersist
    \/ StartRoutine
    \/ (ops < MaxOps /\ ClientCall("w1"))
    \/ ClientStep("w1")
    \/ Evict
    \/ (restarts = 0 /\ ticks < MaxTicks /\ Tick)
    \/ Background
    \/ (restarts = 0 /\ Close)
    \/ Restart

SpecRestart == InitRestart /\ [][NextRestart]_vars

\* one process that starts without a snapshot file and whose client
\* goroutines race each other
InitRace ==
    /\ Init
    /\ ~file.exists

NextRace ==
    \/ loadFromPersist
    \/ StartRoutine
    \/ \E w \in Workers : ops < MaxRaceOps /\ ClientCall(w)
    \/ \E w \in Workers : ClientStep(w)
    \/ Evict

SpecRace == InitRace /\ [][NextRace]_vars

(***************************************************************************)
(* C1.  Put(K, V, 0) then Fetch(K).                                        *)
(***************************************************************************)
\* a Fetch of w has returned, and when it started the last write to its key
\* that had returned was Put(key, V, 0) with V not empty, and no two calls on
\* the key have overlapped
FetchAfterPut(w) ==
    /\ wk[w].op = "Fetch" /\ wk[w].pc = "done"
    /\ wk[w].key \notin ovl
    /\ wk[w].prior.kind = "Put" /\ wk[w].prior.exp = 0
    /\ wk[w].prior.value # << >>

\* C1, for every Put: once Put(K, V, 0) has returned and no later Put to K was
\* issued, Fetch(K) returns V, whatever freecache evicted in between
C1_FetchReturnsPut ==
    \A w \in Workers :
        FetchAfterPut(w) => wk[w].err = Nil /\ wk[w].data = wk[w].prior.value

\* C1, for the Puts the cache accepted: once Put(K, V, 0) has returned no
\* error and no later Put to K was issued, Fetch(K) returns V, whatever
\* freecache evicted in between
C1_FetchReturnsAcceptedPut ==
    \A w \in Workers :
        FetchAfterPut(w) /\ wk[w].prior.err = Nil
            => wk[w].err = Nil /\ wk[w].data = wk[w].prior.value

\* a Fetch that found its key evicted and returned the value of an accepted
\* Put(K, V, 0) from persistData
C1_Witness ==
    \E w \in Workers :
        /\ FetchAfterPut(w) /\ wk[w].prior.err = Nil
        /\ wk[w].exists /\ wk[w].data = wk[w].prior.value

(***************************************************************************)
(* C2.  Read-repair.                                                       *)
(***************************************************************************)
\* C2: a Fetch that misses the cache goes on to persistData; it reads the
\* entry persistData holds; if there is one it returns that value with no
\* error, and when it returns the cache holds the key with that value and no
\* expiry if freecache took the entry, and is as it was if freecache refused
C2_ReadRepair ==
    [][\A w \in Workers :
          LET k == wk'[w].key
          IN  /\ (wk'[w] # wk[w] /\ wk'[w].op = "Fetch" /\ wk[w].pc \in { "idle", "done" }
                    /\ k \notin DOMAIN cache)
                  => wk'[w].pc = "persist"
              /\ (wk[w].op = "Fetch" /\ wk[w].pc = "persist" /\ wk'[w].pc = "fill")
                  => /\ wk'[w].exists = (k \in DOMAIN persistData)
                     /\ wk'[w].exists => wk'[w].persistValue = persistData[k]
              /\ (wk[w].op = "Fetch" /\ wk[w].pc = "fill" /\ wk'[w].pc = "done"
                    /\ wk[w].exists)
                  => /\ wk'[w].data = wk[w].persistValue /\ wk'[w].err = Nil
                     /\ IF Len(k) + Len(wk[w].persistValue) <= EngineMaxEntry
                        THEN /\ k \in DOMAIN cache'
                             /\ cache'[k] = [val |-> wk[w].persistValue, ttl |-> 0]
                        ELSE cache' = cache
    ]_vars

\* a Fetch has returned a value it read from persistData and the cache holds
\* the key again, with that value
C2_Witness ==
    \E w \in Workers :
        /\ wk[w].op = "Fetch" /\ wk[w].pc = "done" /\ wk[w].exists
        /\ wk[w].key \in DOMAIN cache
        /\ cache[wk[w].key].val = wk[w].data

(***************************************************************************)
(* C3.  Durability across restart.                                         *)
(***************************************************************************)
\* in a process started on the file an earlier process left, a Fetch has
\* returned for a key that a flush of the earlier process had to save (a
\* Put(K, V, <= 0) had returned before the flush took its snapshot, the flush
\* returned no error and no later flush touched the file) and that this
\* process has not written
FetchAfterRestart(w) ==
    /\ restarts > 0
    /\ wk[w].op = "Fetch" /\ wk[w].pc = "done"
    /\ boot.valid
    /\ wk[w].key \in DOMAIN boot.must
    /\ wk[w].key \notin written

\* C3: with persistence enabled, a Put(K, V, 0) that returned before a flush
\* took its snapshot, when that flush returned no error and no later flush
\* overwrote the file, is what Fetch(K) returns in a fresh process on the same
\* file and format
C3_DurableAcrossRestart ==
    \A w \in Workers :
        FetchAfterRestart(w)
            => wk[w].err = Nil /\ wk[w].data = boot.must[wk[w].key]

(***************************************************************************)
(* C4.  The NotFound signal.                                               *)
(***************************************************************************)
\* a Fetch of w has returned for a key that no write call of this process
\* was started on and that loadFromPersist did not store
FetchNeverWritten(w) ==
    /\ wk[w].op = "Fetch" /\ wk[w].pc = "done"
    /\ wk[w].key \notin written \cup recovered

\* C4: Fetch of a key that was never written and was not recovered from a
\* snapshot returns ErrKeyNotFound, and GetInt32, GetInt64, GetBool,
\* GetFloat32, GetFloat64 and GetString return their zero value with that
\* same error
C4_NotFound ==
    \A w \in Workers :
        FetchNeverWritten(w) =>
            LET r == [data |-> wk[w].data, err |-> wk[w].err]
            IN  /\ r.err = ErrKeyNotFound
                /\ GetInt32(r) = [value |-> 0, err |-> ErrKeyNotFound]
                /\ GetInt64(r) = [value |-> Zero64, err |-> ErrKeyNotFound]
                /\ GetBool(r) = [value |-> FALSE, err |-> ErrKeyNotFound]
                /\ GetFloat32(r) = [value |-> 0, err |-> ErrKeyNotFound]
                /\ GetFloat64(r) = [value |-> Zero64, err |-> ErrKeyNotFound]
                /\ GetString(r) = [value |-> << >>, err |-> ErrKeyNotFound]

\* a Fetch has returned for a key that was never written, in a process that
\* holds other keys it recovered from a snapshot
C4_Witness ==
    \E w \in Workers :
        /\ FetchNeverWritten(w)
        /\ recovered # {}
        /\ persistData # << >>

(***************************************************************************)
(* C5.  Concurrent calls on distinct keys.                                 *)
(***************************************************************************)
\* the Put of w is permanent, has stored its value, and no other call on its
\* key has overlapped it
StoredPut(w) ==
    /\ wk[w].op = "Put" /\ wk[w].pc = "set"
    /\ IsPermanent(wk[w].exp)
    /\ wk[w].key \notin ovl

\* C5: however Puts and Fetches of several goroutines on distinct keys
\* interleave, persistData holds under each written key the value of that
\* key's Put and holds no key that was not written (no lost update), and a
\* Fetch that reads persistData finds its key absent or finds a value as some
\* Put gave it, never the zero-filled slice of a Put that has not copied yet
C5_NoLostUpdateNoTornRead ==
    /\ \A k \in DOMAIN Settled :
          k \in DOMAIN persistData /\ persistData[k] = Settled[k]
    /\ \A w \in Workers :
          StoredPut(w) =>
              wk[w].key \in DOMAIN persistData /\ persistData[wk[w].key] = wk[w].value
    /\ DOMAIN persistData \subseteq written \cup recovered
    /\ \A w \in Workers :
          (wk[w].op = "Fetch" /\ wk[w].pc = "fill" /\ wk[w].exists)
              => wk[w].persistValue \in Values

\* two Puts on distinct keys are interleaved: one has stored its value and
\* is about to write the cache, the other holds the lock between make and copy
C5_Witness ==
    \E w, o \in Workers :
        /\ StoredPut(w) /\ wk[w].value # << >>
        /\ wk[o].op = "Put" /\ wk[o].pc = "copy"
        /\ wk[o].key # wk[w].key
        /\ wk[o].value # << >>

(***************************************************************************)
(* C6.  Put with expireSeconds <= 0.                                       *)
(***************************************************************************)
\* w starts a call with this step
Starts(w) == ~InFlight(w) /\ wk'[w] # wk[w]

\* C6: Put(key, value, expireSeconds <= 0) first stores a copy of value in
\* persistData under key, the cache untouched and every other entry kept, and
\* then writes the cache with no expiry; what Put returns is what that write
\* returned, and persistData is stored whether the write fails or not
C6_PermanentPut ==
    [][\A w \in Workers :
          LET k == wk'[w].key
              v == wk'[w].value
              r == EngineSet(cache, k, v, 0)
          IN  /\ (Starts(w) /\ wk'[w].op = "Put" /\ wk'[w].exp <= 0)
                  => /\ wk'[w].pc = "copy"
                     /\ cache' = cache
                     /\ k \in DOMAIN persistData'
                     /\ Len(persistData'[k]) = Len(v)
                     /\ \A x \in DOMAIN persistData \ {k} :
                           x \in DOMAIN persistData' /\ persistData'[x] = persistData[x]
              /\ (wk[w].op = "Put" /\ wk[w].pc = "copy" /\ wk'[w].pc # "copy")
                  => /\ wk'[w].pc = "set"
                     /\ cache' = cache
                     /\ persistData' = [persistData EXCEPT ![k] = v]
              /\ (wk[w].op = "Put" /\ wk[w].pc = "set" /\ wk'[w].pc # "set")
                  => /\ wk'[w].pc = "done"
                     /\ persistData' = persistData
                     /\ persistData[k] = v
                     /\ cache' = r.cache
                     /\ wk'[w].err = r.err
    ]_vars

\* a Put with a negative expireSeconds has returned the error of the cache
\* and persistData holds its value
C6_Witness ==
    \E w \in Workers :
        /\ wk[w].op = "Put" /\ wk[w].pc = "done"
        /\ wk[w].exp < 0
        /\ wk[w].err = ErrLargeEntry
        /\ wk[w].key \in DOMAIN persistData
        /\ persistData[wk[w].key] = wk[w].value

(***************************************************************************)
(* C7.  Put with expireSeconds > 0.                                        *)
(***************************************************************************)
\* C7: Put(key, value, expireSeconds > 0) writes only the cache: the whole
\* call is one write of the cache with that expiry, persistData is as it
\* was, the entry under the same key included, and what a flush collects is
\* what persistData holds, so the Put adds nothing to a snapshot
C7_VolatilePut ==
    [][/\ \A w \in Workers :
             (Starts(w) /\ wk'[w].op = "Put" /\ wk'[w].exp > 0)
                 => /\ persistData' = persistData
                    /\ wk'[w].pc = "done"
                    /\ cache' = EngineSet(cache, wk'[w].key, wk'[w].value,
                                          wk'[w].exp).cache
                    /\ UNCHANGED << file, fl >>
       /\ \A f \in Flushers :
             (fl[f].pc = "collect" /\ fl'[f].pc # "collect")
                 => /\ Len(fl'[f].entries) = Cardinality(DOMAIN persistData)
                    /\ \A i \in 1..Len(fl'[f].entries) :
                          /\ fl'[f].entries[i].Key \in DOMAIN persistData
                          /\ fl'[f].entries[i].Value
                                = persistData[fl'[f].entries[i].Key]
    ]_vars

\* a Put with expireSeconds > 0 has returned without error for a key that
\* persistData holds with another value
C7_Witness ==
    \E w \in Workers :
        /\ wk[w].op = "Put" /\ wk[w].pc = "done"
        /\ wk[w].exp > 0 /\ wk[w].err = Nil
        /\ wk[w].key \in DOMAIN persistData
        /\ persistData[wk[w].key] # wk[w].value

(***************************************************************************)
(* C8.  A snapshot that does not load.                                     *)
(***************************************************************************)
\* C8: when the snapshot file fails to load, NewNGCache does not return an
\* NGCache that takes calls and does not start persistRoutine
C8_LoadFailureAborts ==
    loadErr # Nil => ctor # "ready" /\ sched = "Idle"

(***************************************************************************)
(* C9.  The startup load.                                                  *)
(***************************************************************************)
\* nothing but the load has happened in this process
OnlyLoading ==
    /\ sched = "Idle" /\ tickC = 0
    /\ \A f \in Flushers : fl[f].pc = "idle"
    /\ \A w \in Workers : wk[w].pc = "idle"
    /\ ops = 0 /\ closes = 0 /\ closer.pc = "idle"

\* the entry i of es is the last one of its key
LastOfKey(es, i) == \A j \in (i + 1)..Len(es) : es[j].Key # es[i].Key

\* C9: while NewNGCache is loading no flush, Put, Fetch or Close has started
\* and persistRoutine does not run; the load, with persistence enabled, leaves
\* persistData empty and no error when there is no file, and else stores
\* every entry it decoded in persistData and sets it in the cache with no
\* expiry (unless the cache refuses it); persistRoutine starts only after
C9_LoadFirst ==
    /\ [](ctor = "load" => OnlyLoading /\ persistData = << >> /\ cache = << >>)
    /\ [][/\ (ctor = "load" /\ ctor' # "load" /\ Enabled)
               => /\ OnlyLoading'
                  /\ IF ~file.exists
                     THEN persistData' = << >> /\ cache' = << >> /\ loadErr' = Nil
                     ELSE LET es == LoadFile(file, config.Format).entries
                          IN  \A i \in 1..Len(es) :
                                 LastOfKey(es, i) =>
                                    /\ es[i].Key \in DOMAIN persistData'
                                    /\ persistData'[es[i].Key] = es[i].Value
                                    /\ Len(es[i].Key) + Len(es[i].Value) <= EngineMaxEntry
                                        => /\ es[i].Key \in DOMAIN cache'
                                           /\ cache'[es[i].Key]
                                                = [val |-> es[i].Value, ttl |-> 0]
          /\ (sched = "Idle" /\ sched' # "Idle") => ctor = "spawn"
       ]_vars

\* the load has returned without error, persistData and the cache hold what
\* the file held, and persistRoutine is not started yet
C9_Witness ==
    /\ ctor = "spawn" /\ sched = "Idle"
    /\ loadErr = Nil
    /\ recovered # {}
    /\ \A k \in recovered : k \in DOMAIN persistData /\ k \in DOMAIN cache

(***************************************************************************)
(* C10.  Close.                                                            *)
(***************************************************************************)
\* C10: with persistence enabled, a Close that returns normally closes
\* stopChan and then runs saveToPersist once (the flush starts with the call
\* and the call returns when the flush does); what that flush collects holds
\* every key whose Put(_, _, <= 0) had returned when Close was called, with
\* the value put unless it was written again since; and once persistRoutine
\* has taken the stop signal it starts no flush
C10_CloseFlushesOnce ==
    /\ [](closer.pc = "flush"
            => stopChan = "closed" /\ fl["close"].pc # "idle" /\ closer.flushes = 1)
    /\ [](sched = "Stopped" => stopChan = "closed" /\ fl["sched"].pc = "idle")
    /\ [][/\ (fl["close"].pc = "idle" /\ fl'["close"].pc # "idle")
               => /\ Enabled
                  /\ closer.pc = "idle" /\ closer'.pc = "flush"
                  /\ stopChan = "open" /\ stopChan' = "closed"
                  /\ closer'.pre = Settled
          /\ (fl["close"].pc # "idle" /\ fl'["close"].pc = "idle")
               => closer.pc = "flush" /\ closer'.pc = "idle"
          /\ (closer.pc = "flush" /\ closer'.pc # "flush")
               => fl'["close"].pc = "idle"
          /\ (fl["close"].pc = "collect" /\ fl'["close"].pc # "collect")
               => \A k \in DOMAIN closer.pre :
                     \E i \in 1..Len(fl'["close"].entries) :
                        /\ fl'["close"].entries[i].Key = k
                        /\ (k \in DOMAIN Settled /\ Settled[k] = closer.pre[k])
                             => fl'["close"].entries[i].Value = closer.pre[k]
          /\ sched = "Stopped" => sched' = "Stopped" /\ fl'["sched"] = fl["sched"]
       ]_vars

\* persistRoutine has stopped and the flush of Close is writing a snapshot
\* that holds a Put that had returned before Close was called
C10_Witness ==
    /\ sched = "Stopped"
    /\ fl["close"].pc = "write"
    /\ DOMAIN closer.pre # {}
    /\ \A k \in DOMAIN closer.pre :
          \E i \in 1..Len(fl["close"].entries) :
             fl["close"].entries[i] = [Key |-> k, Value |-> closer.pre[k]]

(***************************************************************************)
(* C11.  Close with persistence disabled.                                  *)
(***************************************************************************)
\* the configuration is nil or has Enabled = false
Disabled == config.isNil \/ ~config.Enabled

\* C11: with persistence disabled, however many times Close is called and
\* whatever Puts and Fetches came before, Close returns no error and does not
\* panic, stopChan is never closed, persistRoutine was never started, no
\* saveToPersist runs and the file is never touched
C11_DisabledCloseIsNoOp ==
    /\ [](Disabled =>
            /\ stopChan = "open" /\ sched = "Idle" /\ tickC = 0
            /\ \A f \in Flushers : fl[f].pc = "idle"
            /\ closer.pc = "idle" /\ closer.ret = Nil /\ closer.flushes = 0
            /\ ~panicked
            /\ loadErr = Nil)
    /\ [][Disabled => file' = file /\ (closes' # closes => closer'.ret = Nil)]_vars

\* with persistence disabled Close has been called twice after a Put that
\* returned
C11_Witness ==
    /\ Disabled
    /\ closes = 2
    /\ \E w \in Workers : wk[w].op = "Put" /\ wk[w].pc = "done"

(***************************************************************************)
(* C12.  The round trip of a snapshot.                                     *)
(***************************************************************************)
\* the contents persistData may have: any of the keys, each with any value
Stores == UNION { [ks -> Values] : ks \in SUBSET Keys }

\* a process with persistence enabled that started without a file, in which
\* permanent Puts have built persistData and have returned, and whose cache
\* has dropped every entry
InitCodec ==
    /\ config \in { c \in Configs : ~c.isNil /\ c.Enabled }
    /\ file = NoFile
    /\ restarts = 0
    /\ durable = [valid |-> FALSE, must |-> << >>]
    /\ boot = [valid |-> FALSE, must |-> << >>]
    /\ persistData \in Stores
    /\ cache = << >>
    /\ persistDataMutex = [writer |-> "none", readers |-> {}]
    /\ persistMutex = "none"
    /\ stopChan = "open"
    /\ ctor = "ready"
    /\ loadErr = Nil
    /\ sched = "Running"
    /\ tickC = 0
    /\ ticks = 0
    /\ lateFlushes = 0
    /\ fl = [f \in Flushers |-> IdleFlush]
    /\ closer = [pc |-> "idle", ret |-> Nil, flushes |-> 0, pre |-> << >>]
    /\ panicked = FALSE
    /\ wk = [w \in Workers |-> IdleCall]
    /\ ops = Cardinality(DOMAIN persistData)
    /\ closes = 0
    /\ written = DOMAIN persistData
    /\ recovered = {}
    /\ lastW = [k \in Keys |->
                  IF k \in DOMAIN persistData
                  THEN [kind |-> "Put", value |-> persistData[k], exp |-> 0,
                        err |-> EngineSet(<< >>, k, persistData[k], 0).err]
                  ELSE NoWrite]
    /\ ovl = {}

\* the flush of Close writes the file, the process ends, and a new process
\* loads the file
NextCodec ==
    \/ Close
    \/ persistRoutineStop
    \/ saveToPersistLock("close")
    \/ saveToPersistCollect("close")
    \/ saveToPersistRUnlock("close")
    \/ saveToPersistCreate("close")
    \/ saveToPersistWrite("close")
    \/ Restart
    \/ loadFromPersist
    \/ StartRoutine

SpecCodec == InitCodec /\ [][NextCodec]_vars

\* this process has loaded the file that a flush of the process before it
\* wrote without error
LoadedFlushedFile == restarts > 0 /\ ctor # "load" /\ boot.valid

\* C12: in both formats and for every content of persistData (the empty map,
\* empty values and keys that are not ASCII among them), loading the file a
\* flush wrote into the empty persistData of a new process gives no error and
\* the key/value pairs that were flushed
C12_RoundTrip ==
    LoadedFlushedFile => loadErr = Nil /\ persistData = boot.must

(***************************************************************************)
(* C13.  Magic and version of a binary snapshot.                           *)
(***************************************************************************)
\* the first two fields of a binary file of at least eight bytes
MagicOf(f) == UnLE(Take(f.bytes, 4))
VersionOf(f) == UnLE(SubSeq(f.bytes, 5, 8))

\* NewNGCache loads a binary file of at least eight bytes with this step
LoadsBinary ==
    /\ ctor = "load" /\ ctor' # "load"
    /\ Enabled /\ config.Format = FormatBinary
    /\ file.exists /\ Len(file.bytes) >= 8

\* C13: loadFromBinary tests the magic before the version: a file whose first
\* four bytes are not 0x4E474341 gets the magic error whatever its version
\* field holds, a file with the magic and a version other than 1 gets the
\* version error, which is another one, and in both cases persistData and the
\* cache stay empty
C13_MagicBeforeVersion ==
    [][LoadsBinary =>
          /\ MagicOf(file) # BinaryMagic
                => /\ loadErr' = "invalid magic"
                   /\ persistData' = << >> /\ cache' = << >>
          /\ (MagicOf(file) = BinaryMagic /\ VersionOf(file) # BinaryVersion)
                => /\ loadErr' = "unsupported version"
                   /\ loadErr' # "invalid magic"
                   /\ persistData' = << >> /\ cache' = << >>
    ]_vars

\* a file with a foreign magic and a version other than 1 was refused with
\* the magic error
C13_Witness ==
    /\ ctor # "load"
    /\ config.Format = FormatBinary
    /\ file.exists /\ Len(file.bytes) >= 8
    /\ MagicOf(file) # BinaryMagic /\ VersionOf(file) # BinaryVersion
    /\ loadErr = "invalid magic"
    /\ persistData = << >>

(***************************************************************************)
(* The typed Sets.  An int32 is the number; an int64 is its two 32-bit     *)
(* halves; a float is its bit pattern, held like the integer of its width. *)
(***************************************************************************)
\* binary.LittleEndian.PutUint32(buf, uint32(value))
PutUint32(v) ==
    IF v >= 0 THEN LE(v, 4)
    ELSE LET u == LE((v + 2147483647) + 1, 4)
         IN  << u[1], u[2], u[3], u[4] + 128 >>

\* binary.LittleEndian.PutUint64(buf, uint64(value))
PutUint64(v) == PutUint32(v.lo) \o PutUint32(v.hi)

\* SetBool's buf: []byte{1} or []byte{0}
BoolBytes(b) == IF b THEN << 1 >> ELSE << 0 >>

\* the values the typed Sets are called with
Int32s == { 0, 1, -1, 258, 2147483647, -2147483647 - 1 }
Int64s == { [hi |-> h, lo |-> l] : h \in { 0, -1, 16777216 }, l \in { 0, -2 } }
\* the bit patterns of 0.0, 1.0, -1.0 and a NaN as float32
Float32s == { 0, 1065353216, -1082130432, 2143289344 }
\* the bit patterns of 0.0, 1.0, -1.0, 0.1 and a NaN as float64
Float64s ==
    { Zero64, [hi |-> 1072693248, lo |-> 0], [hi |-> -1074790400, lo |-> 0],
      [hi |-> 1069128089, lo |-> -1717986918], [hi |-> 2146959360, lo |-> 0] }

SetInt32(w) ==
    \E k \in Keys, v \in Int32s, e \in Expires : setWithPersist(w, k, PutUint32(v), e)

SetInt64(w) ==
    \E k \in Keys, v \in Int64s, e \in Expires : setWithPersist(w, k, PutUint64(v), e)

SetBool(w) ==
    \E k \in Keys, v \in BOOLEAN, e \in Expires : setWithPersist(w, k, BoolBytes(v), e)

SetFloat32(w) ==
    \E k \in Keys, v \in Float32s, e \in Expires : setWithPersist(w, k, PutUint32(v), e)

SetFloat64(w) ==
    \E k \in Keys, v \in Float64s, e \in Expires : setWithPersist(w, k, PutUint64(v), e)

SetBytes(w) ==
    \E k \in Keys, v \in Values, e \in Expires : setWithPersist(w, k, v, e)

\* one process without persistence whose client goroutine stores values with
\* the typed Sets and reads them back; GetInt32 and the other typed Gets are
\* getWithPersist followed by the decoding of what it returned
InitTyped ==
    /\ Init
    /\ config.isNil

NextTyped ==
    \/ loadFromPersist
    \/ (ops < MaxTypedOps /\ SetInt32("w1"))
    \/ (ops < MaxTypedOps /\ SetInt64("w1"))
    \/ (ops < MaxTypedOps /\ SetBool("w1"))
    \/ (ops < MaxTypedOps /\ SetFloat32("w1"))
    \/ (ops < MaxTypedOps /\ SetFloat64("w1"))
    \/ (ops < MaxTypedOps /\ SetBytes("w1"))
    \/ (ops < MaxTypedOps /\ getWithPersistGet("w1"))
    \/ setWithPersistCopy("w1")
    \/ setWithPersistSet("w1")
    \/ getWithPersistRead("w1")
    \/ getWithPersistFill("w1")
    \/ Evict

SpecTyped == InitTyped /\ [][NextTyped]_vars

(***************************************************************************)
(* C14.  The typed reads.                                                  *)
(***************************************************************************)
\* the getWithPersist call of w has returned data
Fetched(w) == wk[w].op = "Fetch" /\ wk[w].pc = "done" /\ wk[w].err = Nil

\* C14: GetInt32 and GetFloat32 refuse data that is not 4 bytes long, GetInt64
\* and GetFloat64 data that is not 8 bytes long and GetBool data that is not
\* 1 byte long, each with its zero value and ErrInvalidType; and each returns
\* the value that was set, without error, when the data is what the Set of
\* its type stored
C14_TypedReads ==
    \A w \in Workers :
        Fetched(w) =>
            LET r == [data |-> wk[w].data, err |-> wk[w].err]
            IN  /\ Len(r.data) # 4 =>
                      /\ GetInt32(r) = [value |-> 0, err |-> ErrInvalidType]
                      /\ GetFloat32(r) = [value |-> 0, err |-> ErrInvalidType]
                /\ Len(r.data) # 8 =>
                      /\ GetInt64(r) = [value |-> Zero64, err |-> ErrInvalidType]
                      /\ GetFloat64(r) = [value |-> Zero64, err |-> ErrInvalidType]
                /\ Len(r.data) # 1 =>
                      GetBool(r) = [value |-> FALSE, err |-> ErrInvalidType]
                /\ \A v \in Int32s :
                      r.data = PutUint32(v) => GetInt32(r) = [value |-> v, err |-> Nil]
                /\ \A v \in Float32s :
                      r.data = PutUint32(v) => GetFloat32(r) = [value |-> v, err |-> Nil]
                /\ \A v \in Int64s :
                      r.data = PutUint64(v) => GetInt64(r) = [value |-> v, err |-> Nil]
                /\ \A v \in Float64s :
                      r.data = PutUint64(v) => GetFloat64(r) = [value |-> v, err |-> Nil]
                /\ \A v \in BOOLEAN :
                      r.data = BoolBytes(v) => GetBool(r) = [value |-> v, err |-> Nil]

\* a negative int64 that SetInt64 stored has been read back
C14_Witness ==
    \E w \in Workers :
        /\ Fetched(w)
        /\ \E v \in Int64s : v.hi < 0 /\ v.lo < 0 /\ wk[w].data = PutUint64(v)

(***************************************************************************)
(* persistRoutine and Close alone: a process of any configuration that      *)
(* starts without a file and takes no Put and no Fetch, so that the ticker *)
(* can fire several times while a flush runs.                              *)
(***************************************************************************)
InitSched ==
    /\ Init
    /\ ~file.exists

NextSched ==
    \/ loadFromPersist
    \/ StartRoutine
    \/ (ticks < MaxSchedTicks /\ Tick)
    \/ Background
    \/ Close

SpecSched == InitSched /\ [][NextSched]_vars

(***************************************************************************)
(* C15.  One flush at a time, one pending tick.                            *)
(***************************************************************************)
\* the saveToPersist call of f holds persistMutex
InSave(f) == fl[f].pc \in { "collect", "unlock", "create", "write" }

\* C15: at most one saveToPersist, that of persistRoutine or that of Close,
\* is past persistMutex.Lock at any time; ticker.C never holds more than one
\* tick, however many fire while a flush runs; and persistRoutine starts a
\* flush only by taking the pending tick, which leaves none, so a flush is
\* followed by at most one repeat for all the ticks that fired during it
C15_OneFlushOnePendingTick ==
    /\ [](/\ \A f, g \in Flushers : InSave(f) /\ InSave(g) => f = g
          /\ \A f \in Flushers : InSave(f) <=> persistMutex = f
          /\ tickC <= 1)
    /\ [][/\ (fl["sched"].pc = "idle" /\ fl'["sched"].pc # "idle")
               => sched = "Running" /\ tickC = 1 /\ tickC' = 0
          /\ (sched = "Flushing" /\ sched' = "Running") => tickC' <= 1
       ]_vars

\* the scheduled flush is writing, the flush of Close waits for persistMutex,
\* and of the two ticks that fired since the flush started one is pending
C15_Witness ==
    /\ sched = "Flushing" /\ fl["sched"].pc = "write"
    /\ fl["close"].pc = "lock"
    /\ ticks = 3 /\ tickC = 1

(***************************************************************************)
(* C16.  Scheduled flushes after the stop signal.                          *)
(***************************************************************************)
\* C16: once Close has closed stopChan, persistRoutine starts at most one
\* more flush before it returns, whatever its select chooses when a tick and
\* the closed stopChan are both ready
C16_OneFlushAfterStop ==
    lateFlushes <= 1

(***************************************************************************)
(* C17.  The life of persistRoutine.                                       *)
(***************************************************************************)
\* one saveToPersist call, from persistMutex.Lock to its return
saveToPersist(f) ==
    \/ saveToPersistLock(f)
    \/ saveToPersistCollect(f)
    \/ saveToPersistRUnlock(f)
    \/ saveToPersistCreate(f)
    \/ saveToPersistWrite(f)

\* SpecSched under fair scheduling: no saveToPersist call stays for ever at a
\* step it can take, and the select of persistRoutine, which picks at random
\* among its ready cases, does not leave the closed stopChan out for ever
SpecSchedFair ==
    /\ SpecSched
    /\ \A f \in Flushers : WF_vars(saveToPersist(f))
    /\ SF_vars(persistRoutineStop)

\* C17: persistRoutine goes from Idle to Running (where it waits in its
\* select or is inside a flush) and from Running to Stopped, and no other
\* way; it has left Idle only if persistence is enabled; once Stopped it stays
\* Stopped, is in no flush and starts none; and once stopChan is closed it
\* reaches Stopped, as long as the process is not ended by a panic
C17_SchedulerLife ==
    /\ [](/\ sched # "Idle" => Enabled
          /\ sched = "Stopped" => stopChan = "closed" /\ fl["sched"].pc = "idle"
          /\ (sched = "Flushing") <=> (fl["sched"].pc # "idle"))
    /\ [][/\ sched' # sched =>
               << sched, sched' >> \in { << "Idle", "Running" >>,
                                         << "Running", "Flushing" >>,
                                         << "Flushing", "Running" >>,
                                         << "Running", "Stopped" >> }
          /\ sched = "Stopped" =>
               /\ sched' = "Stopped"
               /\ fl'["sched"] = fl["sched"]
               /\ tickC' = tickC
               /\ lateFlushes' = lateFlushes
       ]_vars
    /\ (stopChan = "closed") ~> (sched = "Stopped" \/ panicked)

\* persistRoutine has stopped after a flush it started with stopChan closed,
\* the flush of Close has returned and the process is alive
C17_Witness ==
    /\ sched = "Stopped"
    /\ lateFlushes > 0
    /\ closer.pc = "idle" /\ closes = 1
    /\ ~panicked

(***************************************************************************)
(* C18.  Flush failures.                                                   *)
(***************************************************************************)
\* the saveToPersist call of f returns in this step
Returns(f) == fl[f].pc # "idle" /\ fl'[f].pc = "idle"

\* C18: when a flush of persistRoutine returns, with an error or without,
\* the loop is back in its select, stopChan and the state of Close's caller
\* are as they were; after any number of failed flushes a pending tick can
\* start the next flush; and when the flush of Close returns, Close returns
\* to its caller what that flush returned: an error if and only if it failed
C18_FailureKeepsLoop ==
    /\ [][/\ Returns("sched") =>
               /\ sched' = "Running"
               /\ closer' = closer
               /\ stopChan' = stopChan
               /\ panicked' = panicked
          /\ Returns("close") =>
               /\ closer.pc = "flush" /\ closer'.pc = "idle"
               /\ (closer'.ret # Nil) <=> (fl'["close"].failed = fl["close"].failed + 1)
               /\ (closer'.ret = Nil) <=> (fl'["close"].failed = fl["close"].failed)
               /\ sched' = sched
       ]_vars
    /\ [](/\ (fl["sched"].failed > 0 /\ sched = "Running" /\ tickC > 0 /\ ~panicked)
               => ENABLED persistRoutineTick
          /\ sched = "Stopped" => stopChan = "closed"
          /\ closer.ret # Nil => fl["close"].failed > 0)

\* two flushes of persistRoutine have failed and the next tick has started a
\* third
C18_Witness ==
    /\ fl["sched"].failed = 2
    /\ sched = "Flushing"
    /\ fl["sched"].pc = "write"

(***************************************************************************)
(* C19.  persistData only grows.                                           *)
(***************************************************************************)
\* the keys whose entry of persistData this step adds or changes
Stored == { k \in DOMAIN persistData' :
              k \notin DOMAIN persistData \/ persistData'[k] # persistData[k] }

\* the client goroutine w is, after this step, inside the critical section of
\* a permanent write to k or has just left it
PermanentWrite(w, k) ==
    /\ wk'[w].key = k
    /\ \/ wk'[w].op = "Put" /\ IsPermanent(wk'[w].exp) /\ wk'[w].pc \in { "copy", "set" }
       \/ wk'[w].op = "SetPermanent" /\ wk'[w].pc = "done" /\ Enabled

\* C19: in one process no step takes a key out of persistData; a step that
\* adds or changes entries is either the load of NewNGCache, into an empty
\* map, or a step of a permanent Put or SetPermanent, which touches the one
\* key of that call
C19_KeysNeverShrink ==
    [][/\ DOMAIN persistData \subseteq DOMAIN persistData'
       /\ Stored # {} =>
            \/ ctor = "load" /\ persistData = << >>
            \/ /\ ctor = "ready"
               /\ \E w \in Workers, k \in Keys : Stored = { k } /\ PermanentWrite(w, k)
      ]_vars

\* a store loaded from a snapshot has had an entry overwritten by a Put, the
\* Engine has lost all its entries, persistRoutine has flushed and stopped
\* and Close has returned
C19_Witness ==
    /\ recovered # {}
    /\ \E w \in Workers :
          /\ wk[w].op = "Put" /\ wk[w].pc = "done"
          /\ wk[w].key \in recovered
          /\ persistData[wk[w].key] = << 7, 7, 7 >>
    /\ DOMAIN persistData = recovered
    /\ DOMAIN cache = {}
    /\ sched = "Stopped" /\ closer.pc = "idle" /\ closes = 1

(***************************************************************************)
(* C20.  The flush and the lock of persistData.                            *)
(***************************************************************************)
\* the saveToPersist call of f is at os.Create or at the writes of the encoder
InFileIO(f) == fl[f].pc \in { "create", "write" }

\* C20: a saveToPersist call never holds persistDataMutex for writing; it
\* holds it for reading exactly between its RLock and its RUnlock, around the
\* loop that copies the entries, and so never while it creates or writes the
\* file; and while a flush is at the file, a Put, a SetPermanent or a Fetch
\* that needs persistDataMutex can take it
C20_NoLockDuringFileIO ==
    /\ persistDataMutex.writer \notin Flushers
    /\ persistDataMutex.readers = { f \in Flushers : fl[f].pc = "unlock" }
    /\ \A f \in Flushers : InFileIO(f) => f \notin persistDataMutex.readers
    /\ \A f \in Flushers, w \in Workers :
          InFileIO(f) /\ ~panicked /\ persistDataMutex.writer = "none" =>
             /\ (wk[w].op = "Fetch" /\ wk[w].pc = "persist")
                   => ENABLED getWithPersistRead(w)
             /\ (wk[w].op = "SetPermanent" /\ wk[w].pc = "store")
                   => ENABLED SetPermanentStore(w)
             /\ (~InFlight(w) /\ ctor = "ready") => ENABLED setWithPersistLock(w)

\* a Put holds persistDataMutex for writing while a flush writes the file
C20_Witness ==
    \E f \in Flushers, w \in Workers :
        /\ fl[f].pc = "write"
        /\ wk[w].op = "Put" /\ wk[w].pc = "copy"
        /\ persistDataMutex.writer = w

(***************************************************************************)
(* C21.  Close called twice.                                               *)
(***************************************************************************)
\* this step is a call of Close on a process whose stopChan is closed
SecondClose == closes' = closes + 1 /\ stopChan = "closed"

\* C21: with persistence enabled a call of Close that finds stopChan closed
\* panics in close(ng.stopChan): it returns nothing to its caller and starts
\* no saveToPersist, so Close has flushed at most once and the file is not
\* touched; and the panic ends the process, which takes no further step
C21_SecondClosePanics ==
    /\ [][/\ SecondClose =>
               /\ Enabled
               /\ panicked'
               /\ closer' = closer
               /\ fl' = fl
               /\ file' = file
          /\ ~panicked
       ]_vars
    /\ [](/\ closer.flushes <= 1
          /\ panicked <=> (Enabled /\ closes = 2))

\* Close has returned the result of its flush, persistRoutine has stopped,
\* and a second Close has ended the process
C21_Witness ==
    /\ panicked
    /\ closes = 2
    /\ closer.pc = "idle" /\ closer.flushes = 1
    /\ sched = "Stopped"
    /\ file.exists

(***************************************************************************)
(* C22.  A binary file that ends inside an entry.                          *)
(***************************************************************************)
\* the sequences of at most n entries
RECURSIVE EntrySeqs(_)
EntrySeqs(n) ==
    IF n = 0 THEN { << >> }
    ELSE LET shorter == EntrySeqs(n - 1)
         IN  shorter \cup
             { Append(es, [Key |-> k, Value |-> v]) :
                  es \in { x \in shorter : Len(x) = n - 1 }, k \in Keys, v \in Values }

\* the documents saveToBinary may have written
Docs == { [Version |-> 1, Timestamp |-> NowUnix, Entries |-> es] :
             es \in EntrySeqs(MaxDocEntries) }

\* the offset in the file of d at which its entry i (0-based) starts
EntryStart(d, i) == 20 + Len(EntriesBytes(Take(d.Entries, i)))

\* the files that end inside an entry: the document d cut at the offset n,
\* which lies in entry i, at its first byte or after it and before its end
Truncations ==
    { [doc |-> d, i |-> i, n |-> n, bytes |-> Take(BinaryBytes(d), n)] :
         <<d, i, n>> \in
            { t \in Docs \X (0..(MaxDocEntries - 1)) \X (20..(19 + 13 * MaxDocEntries)) :
                 /\ t[2] < Len(t[1].Entries)
                 /\ t[3] >= EntryStart(t[1], t[2])
                 /\ t[3] < EntryStart(t[1], t[2] + 1) } }

\* a process with the binary format that finds a complete file or one that
\* ends anywhere, loads it, and whose cache may then drop entries
InitDecode ==
    /\ config \in { c \in Configs : ~c.isNil /\ c.Enabled /\ c.Format = FormatBinary }
    /\ \E d \in Docs : \E n \in 0..Len(BinaryBytes(d)) :
          file = BinaryFile(Take(BinaryBytes(d), n))
    /\ restarts = 0
    /\ durable = [valid |-> FALSE, must |-> << >>]
    /\ boot = [valid |-> FALSE, must |-> << >>]
    /\ Fresh

NextDecode ==
    \/ loadFromPersist
    \/ StartRoutine
    \/ Evict

SpecDecode == InitDecode /\ [][NextDecode]_vars

\* this step is loadFromPersist reading the file
Loads == ctor = "load" /\ ctor' = "spawn"

\* C22: when the binary file ends inside its entry i, loadFromBinary returns
\* a read error, persistDataMutex is free again, persistData holds the
\* entries 0..i-1 of the document and nothing else, and the cache is what
\* cache.Set of the entries 0..i-1, in their order, has made it
C22_TruncatedDecode ==
    [][\A t \in Truncations :
          (Loads /\ file.bytes = t.bytes) =>
              LET before == Take(t.doc.Entries, t.i)
              IN  /\ loadErr' \in { "read key length", "read key",
                                    "read value length", "read value" }
                  /\ persistDataMutex' = [writer |-> "none", readers |-> {}]
                  /\ persistData' = EntriesMap(before)
                  /\ cache' = WarmCache(<< >>, before)
                  /\ recovered' = { before[j].Key : j \in 1..Len(before) }
      ]_vars

\* a file of two entries that ends inside the value of its second entry has
\* been loaded: the first entry is in persistData and in the cache
C22_Witness ==
    /\ ctor = "spawn"
    /\ loadErr = "read value"
    /\ DOMAIN persistData = { << 255 >> }
    /\ DOMAIN cache = { << 255 >> }
    /\ \E t \in Truncations : file.bytes = t.bytes /\ t.i = 1

(***************************************************************************)
(* C23.  The cache and persistData after racing calls.                     *)
(***************************************************************************)
\* no call of a client goroutine is in flight
Quiescent == \A w \in Workers : ~InFlight(w)

\* C23: when no call is in flight, for each key whose last returned write is
\* a permanent Put of V that the cache accepted, the cache does not hold the
\* key or holds V
C23_EngineAgrees ==
    Quiescent =>
        \A k \in Keys :
            (lastW[k].kind = "Put" /\ IsPermanent(lastW[k].exp) /\ lastW[k].err = Nil)
                => (k \notin DOMAIN cache \/ cache[k].val = lastW[k].value)

(***************************************************************************)
(* C24.  A volatile Put over a permanent one.                              *)
(***************************************************************************)
\* a Fetch of w has returned, and when it started the last write to its key
\* that had returned was a Put with expireSeconds > 0 that the cache
\* accepted, and no two calls on the key have overlapped
FetchAfterVolatilePut(w) ==
    /\ wk[w].op = "Fetch" /\ wk[w].pc = "done"
    /\ wk[w].key \notin ovl
    /\ wk[w].prior.kind = "Put" /\ ~IsPermanent(wk[w].prior.exp)
    /\ wk[w].prior.err = Nil

\* C24: a Fetch that follows a volatile Put of V2 returns V2 or, when the
\* cache has dropped the entry, finds no value: it never returns another,
\* older value of the key
C24_NoStaleFetch ==
    \A w \in Workers :
        FetchAfterVolatilePut(w) =>
            \/ wk[w].err = ErrKeyNotFound
            \/ wk[w].err = Nil /\ wk[w].data = wk[w].prior.value

(***************************************************************************)
(* C25.  A permanent write the cache refuses.                              *)
(***************************************************************************)
\* a permanent write of w, Put with expireSeconds <= 0 or SetPermanent, has
\* returned an error
FailedPermanentWrite(w) ==
    /\ wk[w].pc = "done" /\ wk[w].err # Nil
    /\ \/ wk[w].op = "Put" /\ IsPermanent(wk[w].exp)
       \/ wk[w].op = "SetPermanent"

\* C25: when a permanent write has returned an error, persistData is as it
\* was when the call started
C25_UnchangedOnError ==
    \A w \in Workers :
        FailedPermanentWrite(w) => persistData = wk[w].before

(***************************************************************************)
(* C26.  The file that did not load.                                       *)
(***************************************************************************)
\* C26: in a process whose loadFromPersist has returned an error, no step
\* changes the file
C26_FailedLoadFileKept ==
    [][loadErr # Nil => file' = file]_vars

====
